---- MODULE Spec2Model ----
(***************************************************************************)
(* Model of AdvancedMoodStoneViz (src/mood_ring_app.py): the animation     *)
(* clock (run / animate / on_closing), the particle, wisp and fragment     *)
(* collections built by initialize_particles, and the eight layers that    *)
(* animate renders on every tick, with the colours they pass to the        *)
(* canvas; and of ComprehensiveMoodAssessment, the questionnaire whose     *)
(* scores determine_mood_archetype turns into the profile.                 *)
(*                                                                         *)
(* Numbers.  Python floats are modelled in fixed point:                    *)
(*   lengths, velocities, life, size : hundredths (1.0 is 100)             *)
(*   angles                          : milliradians (1 rad is 1000)        *)
(*   sines and cosines               : thousandths (1.0 is 1000)           *)
(* The random module is one pseudo-random generator seeded once: the model *)
(* keeps the seed in rng, and the value of a random.uniform / random.choice*)
(* call is a function of the seed and of the call's position in the run    *)
(* (the call site, the tick, the loop index, the draw in the iteration).   *)
(* A string that the program parses or formats (a colour) is the sequence  *)
(* of its characters.                                                      *)
(***************************************************************************)
EXTENDS Integers, Sequences, FiniteSets, TLC

VARIABLES
    mood_data,          \* self.mood_data: the profile given to __init__
    frame,              \* self.frame
    running,            \* self.running
    particles,          \* self.particles
    energy_wisps,       \* self.energy_wisps
    stress_fragments,   \* self.stress_fragments
    rng,                \* seed of the random module's generator
    canvas,             \* tag -> number of primitives carrying it
    emitted,            \* layer -> number of create_* calls it made in the latest animate call
    fills,              \* <<tag, fill>> of the primitives created by the latest animate call
    rings,              \* the ovals of the stone core created by the latest animate call
    calls,              \* layers rendered by the latest animate call, in order, with the frame each read
    scheduled,          \* an animate callback registered with root.after is pending
    destroyed,          \* root.destroy() has been executed
    pc,                 \* "new", "constructed", "mainloop", "returned": position of __init__ / run
    ticks,              \* number of animate calls that ran past the running guard to root.after
    closings,           \* number of on_closing calls made
    raised,             \* the latest handler ended by raising ("none" or the exception)
    pss_score,              \* ComprehensiveMoodAssessment.pss_score
    life_events_score,      \* ComprehensiveMoodAssessment.life_events_score
    economic_stress_score,  \* ComprehensiveMoodAssessment.economic_stress_score
    economic_factors,       \* ComprehensiveMoodAssessment.economic_factors
    compound_stress_patterns, \* ComprehensiveMoodAssessment.compound_stress_patterns
    mood_archetype,         \* ComprehensiveMoodAssessment.mood_archetype ("None" until determined)
    conducts                \* number of conduct_* calls made on the assessment

\* the fields of the ComprehensiveMoodAssessment object
assessment == <<pss_score, life_events_score, economic_stress_score, economic_factors,
                compound_stress_patterns, mood_archetype, conducts>>

\* the fields of the AdvancedMoodStoneViz object, the Tk root and the history
engine == <<mood_data, frame, running, particles, energy_wisps, stress_fragments,
            rng, canvas, emitted, fills, rings, calls, scheduled, destroyed, pc, ticks,
            closings, raised>>

vars == <<engine, assessment>>

----------------------------------------------------------------------------
(* Bounds of the model *)

\* animate stops being scheduled by the model after MaxTicks ticks
MaxTicks == 56

\* seeds of the random generator are 0 .. MaxSeed
MaxSeed == 1

\* on_closing is called at most MaxClosings times
MaxClosings == 2

----------------------------------------------------------------------------
(* Program constants *)

width == 1000
height == 700

center_x == width \div 2
center_y == height \div 2

\* center in hundredths
CX == center_x * 100
CY == center_y * 100

----------------------------------------------------------------------------
(* Arithmetic helpers *)

Max(a, b) == IF a >= b THEN a ELSE b
Min(a, b) == IF a <= b THEN a ELSE b

\* float division / multiplication result cut to the fixed-point grid, toward zero
Quot(a, b) == IF a >= 0 THEN a \div b ELSE -((-a) \div b)

RECURSIVE SqrtIter(_, _)
SqrtIter(n, x) ==
    LET y == (x + n \div x) \div 2
    IN IF y >= x THEN x ELSE SqrtIter(n, y)

\* math.sqrt on the fixed-point grid (integer square root, Newton iteration)
ISqrt(n) == IF n <= 0 THEN 0 ELSE SqrtIter(n, n)

\* pi and 2*pi in milliradians
PiMrad == 3142
TwoPiMrad == 6283

\* math.sin for an angle in [0, pi] (Bhaskara's rational approximation), in thousandths
SinHalf(x) ==
    LET p == x * (PiMrad - x)
    IN (16 * p) \div ((49348022 - 4 * p) \div 1000)

\* math.sin of an angle in milliradians, in thousandths
Sin(a) ==
    LET m == a % TwoPiMrad
    IN IF m <= PiMrad THEN SinHalf(m) ELSE -SinHalf(Min(m - PiMrad, PiMrad))

\* math.cos of an angle in milliradians, in thousandths
Cos(a) == Sin(a + 1571)

----------------------------------------------------------------------------
(* The random module *)

\* one step of a full-period 16-bit linear congruential generator
NextRand(r) == (r * 25173 + 13849) % 65536

\* the generator's output at position k of the stream: two steps with the bytes
\* swapped in between
Mix(k) ==
    LET a == NextRand(k % 65536)
    IN NextRand((a \div 256) + 256 * (a % 256))

\* the call sites of random in the program
SiteParticle == 1
SiteWisp == 2
SiteFragment == 3
SiteUpdate == 4
SiteSparkle == 5

\* the draw j of iteration i of the loop at call site, in tick f, under seed
Rand(seed, site, f, i, j) ==
    Mix(seed * 30011 + site * 7919 + f * 2003 + i * 8 + j)

\* the 10 high bits of a draw: the fraction random.random() returns, in 1/1023
Frac(r) == r \div 64

\* random.uniform(a, b) for draw r: a + (b - a) * random()
Uniform(a, b, r) == a + ((b - a) * Frac(r)) \div 1023

\* random.choice over a sequence
Choice(seq, r) == seq[1 + (Frac(r) * Len(seq)) \div 1024]

----------------------------------------------------------------------------
(* initialize_particles *)

\* variant: the stress level added where the code subtracts it
ParticleCountAdds(md) == Max(50, Min(200, 150 + md.stress_level))

\* particle_count = max(50, min(200, 150 - stress_level))
ParticleCount(md) == Max(50, Min(200, 150 - md.stress_level))

\* variant: the pressure rounded to the nearest ten where the code floors it
WispCountRounded(md) == Max(6, 12 - ((md.economic_pressure + 5) \div 10))

\* wisp_count = max(6, 12 - (economic_pressure // 10))
WispCount(md) == Max(6, 12 - (md.economic_pressure \div 10))

\* variant: round() where the code truncates with int()
FragmentCountRounded(md) == (30 * md.stress_level + 50) \div 100

\* int(30 * stress_intensity), stress_intensity = stress_level / 100.  For every
\* integer score in 0..100 the float product truncates to floor(30 * score / 100).
FragmentCount(md) == (30 * md.stress_level) \div 100

\* core particle i (8 draws, in the order of the dict literal)
NewParticle(seed, i) ==
    [x           |-> CX + Uniform(-10000, 10000, Rand(seed, SiteParticle, 0, i, 0)),
     y           |-> CY + Uniform(-10000, 10000, Rand(seed, SiteParticle, 0, i, 1)),
     vx          |-> Uniform(-200, 200, Rand(seed, SiteParticle, 0, i, 2)),
     vy          |-> Uniform(-200, 200, Rand(seed, SiteParticle, 0, i, 3)),
     life        |-> Uniform(5000, 20000, Rand(seed, SiteParticle, 0, i, 4)),
     max_life    |-> Uniform(5000, 20000, Rand(seed, SiteParticle, 0, i, 5)),
     size        |-> Uniform(100, 400, Rand(seed, SiteParticle, 0, i, 6)),
     energy_type |-> Choice(<<"core", "stress", "economic">>,
                            Rand(seed, SiteParticle, 0, i, 7))]

\* wisp i of wisp_count (4 draws)
NewWisp(seed, i, wisp_count) ==
    [angle      |-> (i * TwoPiMrad) \div wisp_count,
     radius     |-> Uniform(8000, 15000, Rand(seed, SiteWisp, 0, i, 0)),
     flow_speed |-> Uniform(10, 30, Rand(seed, SiteWisp, 0, i, 1)),
     amplitude  |-> Uniform(1000, 3000, Rand(seed, SiteWisp, 0, i, 2)),
     frequency  |-> Uniform(500, 2000, Rand(seed, SiteWisp, 0, i, 3))]

\* stress fragment i (4 draws); chaos_factor = stress_intensity, in hundredths
NewFragment(seed, i, md) ==
    [x            |-> CX + Uniform(-20000, 20000, Rand(seed, SiteFragment, 0, i, 0)),
     y            |-> CY + Uniform(-20000, 20000, Rand(seed, SiteFragment, 0, i, 1)),
     target_x     |-> CX,
     target_y     |-> CY,
     speed        |-> Uniform(50, 200, Rand(seed, SiteFragment, 0, i, 2)),
     size         |-> Uniform(200, 600, Rand(seed, SiteFragment, 0, i, 3)),
     chaos_factor |-> md.stress_level]

\* the three loops of initialize_particles, each appending to its collection
InitializeParticlesResult(md, seed, ps, ws, fs) ==
    [particles        |-> ps \o [i \in 1..ParticleCount(md) |-> NewParticle(seed, i)],
     energy_wisps     |-> ws \o [i \in 1..WispCount(md) |-> NewWisp(seed, i - 1, WispCount(md))],
     stress_fragments |-> fs \o [i \in 1..FragmentCount(md) |-> NewFragment(seed, i, md)]]

----------------------------------------------------------------------------
(* The drawing surface *)

Tags == {"background", "economic_pressure", "energy_wisps", "particles",
         "stone_core", "stress_patterns", "sparkles", "floating_text"}

\* variant: a delete that leaves the primitives of the tag on the surface
DeleteNothing(cv, tag) == cv

\* canvas.delete(tag)
Delete(cv, tag) == [cv EXCEPT ![tag] = 0]

\* n calls of canvas.create_line / create_oval / create_text with tags=tag
Create(cv, tag, n) == [cv EXCEPT ![tag] = @ + n]

\* a layer method is entered: it is recorded with the frame value it reads
Enter(s, layer) == [s EXCEPT !.calls = Append(@, [layer |-> layer, frame |-> s.frame])]

\* the first statement of a layer method: self.canvas.delete(tag)
Clear(s, tag) == [s EXCEPT !.canvas = Delete(@, tag)]

\* the create_* calls of layer: n primitives tagged tag, filled with the colours
\* of the set colours
Draw(s, layer, tag, n, colours) ==
    [s EXCEPT !.canvas = Create(@, tag, n),
              !.emitted[layer] = @ + n,
              !.fills = @ \cup {<<tag, c>> : c \in colours}]

----------------------------------------------------------------------------
(* Colour strings: a string is the sequence of its characters *)

\* the digits format(v, "x") writes
HexDigits == <<"0", "1", "2", "3", "4", "5", "6", "7", "8", "9", "a", "b", "c", "d", "e", "f">>

\* the upper-case digits int(s, 16) reads as well
UpperHexDigits == <<"A", "B", "C", "D", "E", "F">>

\* format(v, "x") of v >= 0
RECURSIVE HexStr(_)
HexStr(v) ==
    IF v < 16 THEN <<HexDigits[v + 1]>>
    ELSE HexStr(v \div 16) \o <<HexDigits[(v % 16) + 1]>>

\* variant: the channel written without its zero padding
FormatX(v) == IF v < 0 THEN <<"-">> \o HexStr(-v) ELSE HexStr(v)

\* format(v, "02x"): sign and digits, padded with zeros to two characters
Format02x(v) ==
    LET body == IF v < 0 THEN <<"-">> \o HexStr(-v) ELSE HexStr(v)
    IN IF Len(body) < 2 THEN <<"0">> \o body ELSE body

\* f"#{r:02x}{g:02x}{b:02x}"
HexColor(r, g, b) == <<"#">> \o Format02x(r) \o Format02x(g) \o Format02x(b)

\* the value int(c, 16) gives the character c, -1 when it raises ValueError
HexValue(c) ==
    IF \E k \in 1..16 : HexDigits[k] = c
    THEN (CHOOSE k \in 1..16 : HexDigits[k] = c) - 1
    ELSE IF \E k \in 1..6 : UpperHexDigits[k] = c
    THEN (CHOOSE k \in 1..6 : UpperHexDigits[k] = c) + 9
    ELSE -1

\* int(s[i:i+2], 16) for the characters i+1, i+2 of the string (1-based in the
\* model), -1 when it raises ValueError
ParseChannel(str, i) ==
    IF HexValue(str[i]) < 0 \/ HexValue(str[i + 1]) < 0 THEN -1
    ELSE 16 * HexValue(str[i]) + HexValue(str[i + 1])

\* a colour literal of the program text, "#" and six characters
Hex6(c1, c2, c3, c4, c5, c6) == <<"#", c1, c2, c3, c4, c5, c6>>

\* the fill option as Tk parses it: the empty string, or "#" followed by 3, 6, 9
\* or 12 hexadecimal digits; any other string of the modelled alphabet makes
\* create_oval raise TclError (invalid color name)
TkColor(c) ==
    \/ c = <<>>
    \/ /\ Len(c) \in {4, 7, 10, 13}
       /\ c[1] = "#"
       /\ \A k \in 2..Len(c) : HexValue(c[k]) >= 0

\* max(0, min(255, v))
Clamp255(v) == Max(0, Min(255, v))

\* the sine argument hue * 6.28 for a hue in thousandths, in milliradians
HueAngle(h) == (h * 628) \div 100

----------------------------------------------------------------------------
(* create_holographic_background *)

\* len(points) of one wave layer: two entries per x in range(0, width, 15)
WavePoints == 2 * ((width + 14) \div 15)

\* the colour of wave layer in frame f: three channels around the layer's
\* intensity, each clamped to 0..255
WaveColor(layer, f) ==
    LET a == HueAngle((3 * f + 200 * layer) % 1000)
        intensity == 30 + 20 * layer
        r == Quot(intensity * 1000 + 20 * Sin(a), 1000)
        g == Quot(intensity * 700 + 15 * Sin(a + 2100), 1000)
        b == Quot(intensity * 1200 + 25 * Sin(a + 4200), 1000)
    IN HexColor(Clamp255(r), Clamp255(g), Clamp255(b))

create_holographic_background(s, md) ==
    IF s.exc # "none" THEN s
    ELSE LET e == Clear(Enter(s, "background"), "background")
             waves == {layer \in 0..5 : WavePoints >= 6}
         IN Draw(e, "background", "background", Cardinality(waves),
                 {WaveColor(layer, e.frame) : layer \in waves})

----------------------------------------------------------------------------
(* create_economic_pressure_visualization *)

\* intensity = int(150 * pressure * (0.5 + 0.5 * sin(frame * 0.04)))
PressureIntensity(f, md) ==
    Quot(150 * md.economic_pressure * (500 + Quot(500 * Sin(40 * f), 1000)), 100000)

\* f"#{intensity:02x}{intensity//3:02x}{intensity//3:02x}"
PressureColor(f, md) ==
    LET intensity == PressureIntensity(f, md)
    IN HexColor(intensity, intensity \div 3, intensity \div 3)

create_economic_pressure_visualization(s, md) ==
    IF s.exc # "none" THEN s
    ELSE LET e == Clear(Enter(s, "economic_pressure"), "economic_pressure")
             \* pressure > 0.3 with pressure = economic_pressure / 100
             angles == IF md.economic_pressure > 30
                       THEN {a \in 0..359 : a % 20 = 0}
                       ELSE {}
         IN Draw(e, "economic_pressure", "economic_pressure", Cardinality(angles),
                 {PressureColor(e.frame, md) : a \in angles})

----------------------------------------------------------------------------
(* create_energy_flow_wisps *)

\* variant: the angle kept within one turn
AdvanceWispWrapped(w) == [w EXCEPT !.angle = (@ + w.flow_speed) % TwoPiMrad]

\* wisp['angle'] += wisp['flow_speed']
AdvanceWisp(w) == [w EXCEPT !.angle = @ + w.flow_speed]

\* the colour of a wisp in frame f, from its angle after the advance; the
\* channels are formatted as computed, without a clamp
WispColor(f, w) ==
    LET a == HueAngle((8 * f + w.angle) % 1000)
        r == Quot(80000 + 80 * Sin(a), 1000)
        g == Quot(120000 + 40 * Cos(a + 2000), 1000)
        b == Quot(160000 + 45 * Sin(a + 4000), 1000)
    IN HexColor(r, g, b)

create_energy_flow_wisps(s, md) ==
    IF s.exc # "none" THEN s
    ELSE LET e == Clear(Enter(s, "energy_wisps"), "energy_wisps")
             ws == [k \in DOMAIN e.energy_wisps |-> AdvanceWisp(e.energy_wisps[k])]
             \* path_points holds 2 * 15 entries, so every wisp draws its line
             lines == {k \in DOMAIN ws : 2 * 15 >= 6}
         IN Draw([e EXCEPT !.energy_wisps = ws], "energy_wisps", "energy_wisps",
                 Cardinality(lines), {WispColor(e.frame, ws[k]) : k \in lines})

----------------------------------------------------------------------------
(* update_particle_systems *)

\* (cos, sin) of the respawn angle, in fifths.  random.uniform(0, 2 * math.pi) is
\* drawn among the twelve angles whose cosine and sine are both exact on the
\* fixed-point grid, so that the spawn point's distance is exactly spawn_distance.
SpawnDirs ==
    << <<5, 0>>, <<4, 3>>, <<3, 4>>, <<0, 5>>, <<-3, 4>>, <<-4, 3>>,
       <<-5, 0>>, <<-4, -3>>, <<-3, -4>>, <<0, -5>>, <<3, -4>>, <<4, -3>> >>

\* angle = random.uniform(0, 2 * math.pi), as its (cos, sin) pair
SpawnAngle(r) == Choice(SpawnDirs, r)

\* spawn_distance = random.uniform(150, 250), on a grid of 0.05
SpawnDistance(r) == 15000 + 5 * ((2000 * Frac(r)) \div 1023)

\* variant: the respawn reuses the box of initialize_particles around the center
RespawnInBox(p, seed, f, i) ==
    [p EXCEPT !.x = CX + Uniform(-10000, 10000, Rand(seed, SiteUpdate, f, i, 2)),
              !.y = CY + Uniform(-10000, 10000, Rand(seed, SiteUpdate, f, i, 3)),
              !.life = p.max_life,
              !.vx = Uniform(-100, 100, Rand(seed, SiteUpdate, f, i, 4)),
              !.vy = Uniform(-100, 100, Rand(seed, SiteUpdate, f, i, 5))]

\* the respawn block: new position on the annulus, life reset, new velocity
\* (draws 2..5 of the iteration)
Respawn(p, seed, f, i) ==
    LET dir == SpawnAngle(Rand(seed, SiteUpdate, f, i, 2))
        spawn_distance == SpawnDistance(Rand(seed, SiteUpdate, f, i, 3))
    IN [p EXCEPT !.x = CX + Quot(spawn_distance * dir[1], 5),
                 !.y = CY + Quot(spawn_distance * dir[2], 5),
                 !.life = p.max_life,
                 !.vx = Uniform(-100, 100, Rand(seed, SiteUpdate, f, i, 4)),
                 !.vy = Uniform(-100, 100, Rand(seed, SiteUpdate, f, i, 5))]

\* the forces, the move, the damping and the life decrement of particle i
\* (draws 0..1 of the iteration)
MoveParticle(p, md, seed, f, i) ==
    LET dx == CX - p.x
        dy == CY - p.y
        d2 == dx * dx + dy * dy
        distance == IF d2 > 0 THEN ISqrt(d2) ELSE 100
        \* stress_chaos = stress_level / 100 * 0.3
        stress_chaos == (30 * md.stress_level) \div 100
        vx == p.vx + Quot(dx * 8, distance)
                   + Uniform(-stress_chaos, stress_chaos, Rand(seed, SiteUpdate, f, i, 0))
        vy == p.vy + Quot(dy * 8, distance)
                   + Uniform(-stress_chaos, stress_chaos, Rand(seed, SiteUpdate, f, i, 1))
    IN [p EXCEPT !.x = p.x + vx,
                 !.y = p.y + vy,
                 !.vx = Quot(vx * 98, 100),
                 !.vy = Quot(vy * 98, 100),
                 !.life = p.life - 100]

\* if particle['life'] <= 0
NeedsRespawn(p) == p.life <= 0

\* variant: the loop body without its respawn block
UpdateParticleNoRespawn(p, md, seed, f, i) == MoveParticle(p, md, seed, f, i)

\* one iteration of the loop body up to the draw
UpdateParticle(p, md, seed, f, i) ==
    LET m == MoveParticle(p, md, seed, f, i)
    IN IF NeedsRespawn(m) THEN Respawn(m, seed, f, i) ELSE m

\* size = particle['size'] * alpha, alpha = life / max_life; drawn when size > 0.5
ParticleDrawn(p) == Quot(p.size * p.life, p.max_life) > 50

\* variant: a particle whose life ran out is removed from the list instead of respawned
UpdateParticlesDropDead(ps, md, seed, f) ==
    SelectSeq([i \in DOMAIN ps |-> MoveParticle(ps[i], md, seed, f, i)],
              LAMBDA p : ~NeedsRespawn(p))

\* for particle in self.particles[:]: the loop mutates each dict in place, so the
\* list keeps every element
UpdateParticles(ps, md, seed, f) ==
    [i \in DOMAIN ps |-> UpdateParticle(ps[i], md, seed, f, i)]

\* the fill of a particle, by its energy type
ParticleColor(p) ==
    IF p.energy_type = "stress" THEN Hex6("F", "F", "6", "6", "6", "6")
    ELSE IF p.energy_type = "economic" THEN Hex6("F", "F", "A", "A", "4", "4")
    ELSE Hex6("6", "6", "A", "A", "F", "F")

update_particle_systems(s, md) ==
    IF s.exc # "none" THEN s
    ELSE LET e == Clear(Enter(s, "particles"), "particles")
             ps == UpdateParticles(e.particles, md, e.rng, e.frame)
             ovals == {i \in DOMAIN ps : ParticleDrawn(ps[i])}
         IN Draw([e EXCEPT !.particles = ps], "particles", "particles",
                 Cardinality(ovals), {ParticleColor(ps[i]) : i \in ovals})

----------------------------------------------------------------------------
(* create_mood_stone_core *)

\* variant: one ring more than the code draws
RingsWithCenter == 0..10

\* for ring in range(10)
Rings == 0..9

\* current_size of a ring, in hundredths: base_size - ring * 7 + pulse1 + pulse2,
\* then compressed by (1 - economic_compression * 0.25)
RingSize(ring, f, md) ==
    LET pulse1 == Quot(Sin(40 * f + 300 * ring) * 600, 1000)
        pulse2 == Quot(Cos(60 * f + 200 * ring) * 400, 1000)
        current_size == 10000 - ring * 700 + pulse1 + pulse2
    IN Quot(current_size * (10000 - 25 * md.economic_pressure), 10000)

\* color_index = int((frame * 0.01 + ring * 0.2) % len(mood_colors)), 0-based
ColorIndex(ring, f, md) == ((f + 20 * ring) % (100 * Len(md.colors))) \div 100

\* base_color = mood_colors[color_index]
BaseColor(ring, f, md) == md.colors[ColorIndex(ring, f, md) + 1]

\* stress_factor = 1 + stress_multiplier * 0.3 * sin(frame * 0.1 + ring), in thousandths
StressFactor(ring, f, md) ==
    1000 + Quot(3 * md.stress_level * Sin(100 * f + 1000 * ring), 1000)

\* int(max(0, min(255, channel * stress_factor)))
Distort(channel, factor) == Clamp255(Quot(channel * factor, 1000))

\* the three int(base_color[i:j], 16) of the try block all return
ParsesAsHex(base_color) ==
    /\ ParseChannel(base_color, 2) >= 0
    /\ ParseChannel(base_color, 4) >= 0
    /\ ParseChannel(base_color, 6) >= 0

\* ring_color: the distorted colour of a seven-character entry that parses, the
\* entry itself when int() raises ValueError or the length is not 7
RingColor(ring, f, md) ==
    LET base_color == BaseColor(ring, f, md)
        factor == StressFactor(ring, f, md)
    IN IF Len(base_color) = 7 /\ ParsesAsHex(base_color)
       THEN HexColor(Distort(ParseChannel(base_color, 2), factor),
                     Distort(ParseChannel(base_color, 4), factor),
                     Distort(ParseChannel(base_color, 6), factor))
       ELSE base_color

\* the create_oval calls the ring loop comes to, in order: one per ring whose
\* current_size is positive
CoreOvals(f, md) ==
    LET all == [k \in 1..Cardinality(Rings) |->
                   [ring |-> k - 1, size |-> RingSize(k - 1, f, md),
                    fill |-> RingColor(k - 1, f, md)]]
    IN SelectSeq(all, LAMBDA o : o.size > 0)

\* the position of the first create_oval that Tk rejects, 0 when it accepts all
FirstRejected(ovals) ==
    IF \A k \in DOMAIN ovals : TkColor(ovals[k].fill) THEN 0
    ELSE CHOOSE k \in DOMAIN ovals :
             /\ ~TkColor(ovals[k].fill)
             /\ \A j \in 1..(k - 1) : TkColor(ovals[j].fill)

create_mood_stone_core(s, md) ==
    IF s.exc # "none" THEN s
    ELSE LET e == Clear(Enter(s, "stone_core"), "stone_core")
         IN IF Len(md.colors) = 0
            THEN \* the modulo by len(mood_colors) in the first iteration
                 [e EXCEPT !.exc = "ZeroDivisionError"]
            ELSE LET ovals == CoreOvals(e.frame, md)
                     bad == FirstRejected(ovals)
                     done == IF bad = 0 THEN ovals ELSE SubSeq(ovals, 1, bad - 1)
                     d == Draw(e, "stone_core", "stone_core", Len(done),
                               {done[k].fill : k \in DOMAIN done})
                 IN [d EXCEPT !.rings = done,
                              !.exc = IF bad = 0 THEN "none" ELSE "TclError"]

----------------------------------------------------------------------------
(* create_stress_pattern_overlay *)

\* patterns = self.mood_data.get('patterns', [])
Patterns(md) == IF "patterns" \in DOMAIN md THEN md.patterns ELSE <<>>

\* variant: a tag the code does not know drawn as one marker
PatternPrimitivesMarked(pattern) ==
    IF pattern = "economic_psychological_spiral" THEN 80
    ELSE IF pattern = "survival_mode_activation" THEN 8
    ELSE 1

\* primitives one pattern tag contributes
PatternPrimitives(pattern) ==
    IF pattern = "economic_psychological_spiral"
    THEN \* size = max(0, 2.5 - t * 0.02), drawn when size > 0
         Cardinality({t \in 0..79 : Max(0, 250 - 2 * t) > 0})
    ELSE IF pattern = "survival_mode_activation"
    THEN Cardinality(0..7)
    ELSE 0

\* the fill of the primitives of a pattern tag
PatternColors(pattern) ==
    IF pattern = "economic_psychological_spiral"
    THEN {Hex6("F", "F", "6", "B", "6", "B")}
    ELSE IF pattern = "survival_mode_activation"
    THEN {Hex6("F", "F", "4", "4", "4", "4")}
    ELSE {}

RECURSIVE SumPatterns(_)
SumPatterns(patterns) ==
    IF patterns = <<>> THEN 0
    ELSE PatternPrimitives(Head(patterns)) + SumPatterns(Tail(patterns))

\* variant: the list read with setdefault, which stores the default in the profile
create_stress_pattern_overlay_setdefault(s, md) ==
    IF s.exc # "none" THEN s
    ELSE LET e == Clear(Enter(s, "stress_patterns"), "stress_patterns")
             patterns == Patterns(md)
             d == Draw(e, "stress_patterns", "stress_patterns", SumPatterns(patterns),
                       UNION {PatternColors(patterns[k]) : k \in DOMAIN patterns})
         IN [d EXCEPT !.mood_data = [k \in DOMAIN md \cup {"patterns"} |->
                                        IF k = "patterns" THEN patterns ELSE md[k]]]

create_stress_pattern_overlay(s, md) ==
    IF s.exc # "none" THEN s
    ELSE LET e == Clear(Enter(s, "stress_patterns"), "stress_patterns")
             patterns == Patterns(md)
         IN Draw(e, "stress_patterns", "stress_patterns", SumPatterns(patterns),
                 UNION {PatternColors(patterns[k]) : k \in DOMAIN patterns})

----------------------------------------------------------------------------
(* create_sparkle_field *)

\* num_sparkles = int(40 * positive_energy) + 15
NumSparkles(md) == (40 * Max(0, 100 - md.stress_level)) \div 100 + 15

\* sparkle_life of candidate sparkle i of tick f (2 draws)
SparkleLife(seed, f, i) ==
    LET angle == Uniform(0, TwoPiMrad, Rand(seed, SiteSparkle, f, i, 0))
        distance == Uniform(12000, 35000, Rand(seed, SiteSparkle, f, i, 1))
        x == CX + Quot(distance * Cos(angle + 2 * f), 1000)
        y == CY + Quot(distance * Sin(angle + 2 * f), 1000)
    IN (f + Quot(x + y, 100)) % 50

\* if sparkle_life < 15: the oval is drawn
SparkleDrawn(seed, f, i) == SparkleLife(seed, f, i) < 15

\* brightness = int(200 * (15 - sparkle_life) / 15), on the three channels
SparkleColor(sparkle_life) ==
    LET brightness == (200 * (15 - sparkle_life)) \div 15
    IN HexColor(brightness, brightness, brightness)

create_sparkle_field(s, md) ==
    IF s.exc # "none" THEN s
    ELSE LET e == Clear(Enter(s, "sparkles"), "sparkles")
             ovals == {i \in 1..NumSparkles(md) : SparkleDrawn(e.rng, e.frame, i)}
         IN Draw(e, "sparkles", "sparkles", Cardinality(ovals),
                 {SparkleColor(SparkleLife(e.rng, e.frame, i)) : i \in ovals})

----------------------------------------------------------------------------
(* create_floating_text *)

\* text_color of the archetype name in frame f, formatted as computed
TextColor(f) ==
    LET a == HueAngle((6 * f) % 1000)
        r == Quot(120000 + 120 * Sin(a), 1000)
        g == Quot(120000 + 120 * Sin(a + 2100), 1000)
        b == Quot(120000 + 120 * Sin(a + 4200), 1000)
    IN HexColor(r, g, b)

\* the archetype name and the three metric lines
create_floating_text(s, md) ==
    IF s.exc # "none" THEN s
    ELSE LET e == Clear(Enter(s, "floating_text"), "floating_text")
         IN Draw(e, "floating_text", "floating_text", 4,
                 {TextColor(e.frame), Hex6("A", "A", "A", "A", "A", "A"),
                  Hex6("F", "F", "A", "A", "6", "6"), Hex6("6", "6", "A", "A", "F", "F")})

----------------------------------------------------------------------------
(* ComprehensiveMoodAssessment *)

\* calls of the conduct_* methods made on one assessment object
MaxConducts == 3

\* the scores of self.life_events, in the order of the dict
LifeEventScores ==
    <<100, 73, 65, 63, 63, 53, 50, 47, 45, 45, 44, 40, 39, 39, 39, 38, 37, 36, 35,
      31, 30, 29, 29, 29, 28, 26, 26, 25, 24, 23, 20, 20, 20, 19, 19, 18, 17, 16,
      15, 15, 13, 12, 11>>

\* the questions scored in reverse: if (i + 1) in [4, 5, 7, 8]
ReverseScored == {4, 5, 7, 8}

\* what question i adds to pss_score for a response in 0..4
PssPoints(i, response) == IF i \in ReverseScored THEN 4 - response ELSE response

\* the sum of f[i] over the indices lo..hi
RECURSIVE SumOver(_, _, _)
SumOver(f, lo, hi) == IF lo > hi THEN 0 ELSE f[lo] + SumOver(f, lo + 1, hi)

\* answer sheets of the ten PSS questions: a constant answer, and the sheets
\* with the highest and the lowest score
PssSheets ==
    {[i \in 1..10 |-> a] : a \in {0, 2, 4}}
        \cup {[i \in 1..10 |-> IF i \in ReverseScored THEN 0 ELSE 4],
              [i \in 1..10 |-> IF i \in ReverseScored THEN 4 ELSE 0]}

\* answer sheets of the life events: the set of events answered yes
LifeEventSheets == {{}, {1}, {4, 29}, 1..Len(LifeEventScores)}

\* financial_mapping.get(financial_status, 2) and the five mappings after it
financial_mapping(a) ==
    CASE a = "crisis" -> 0 [] a = "struggling" -> 1 [] a = "managing" -> 3
      [] a = "comfortable" -> 4 [] a = "thriving" -> 5 [] OTHER -> 2

emergency_mapping(a) ==
    CASE a = "no" -> 0 [] a = "maybe" -> 2 [] a = "yes" -> 5 [] OTHER -> 1

housing_mapping(a) ==
    CASE a = "unstable" -> 0 [] a = "temporary" -> 1 [] a = "renting" -> 3
      [] a = "owned" -> 4 [] a = "ideal" -> 5 [] OTHER -> 2

healthcare_mapping(a) ==
    CASE a = "crushing" -> 0 [] a = "burdensome" -> 1 [] a = "manageable" -> 3
      [] a = "minimal" -> 5 [] OTHER -> 2

employment_mapping(a) ==
    CASE a = "precarious" -> 0 [] a = "uncertain" -> 1 [] a = "stable" -> 3
      [] a = "very-secure" -> 5 [] OTHER -> 2

debt_mapping(a) ==
    CASE a = "overwhelming" -> 0 [] a = "heavy" -> 1 [] a = "manageable" -> 3
      [] a = "minimal" -> 4 [] a = "none" -> 5 [] OTHER -> 2

\* answer sheets of the six economic questions, in the order they are asked
EconomicSheets ==
    {<<"crisis", "no", "unstable", "crushing", "precarious", "overwhelming">>,
     <<"managing", "maybe", "renting", "manageable", "stable", "manageable">>,
     <<"thriving", "yes", "ideal", "minimal", "very-secure", "none">>,
     <<"", "", "", "", "", "">>}

\* scores whose float quotient times 100 falls just below the integer it
\* equals exactly, so that int() gives one less: pss_score / 40
PssShort == {46, 82, 92, 102}

\* the same for life_events_score / 300
LifeShort == {87, 171, 174}

\* int(stress_intensity), stress_intensity = (pss_score / 40) * 100
StressLevel(pss) == (100 * pss) \div 40 - (IF pss \in PssShort THEN 1 ELSE 0)

\* int(life_disruption), life_disruption = min((life_events_score / 300) * 100, 100)
LifeEvents(les) == Min((100 * les) \div 300 - (IF les \in LifeShort THEN 1 ELSE 0), 100)

\* int(economic_pressure), economic_pressure = ((30 - economic_stress_score) / 30) * 100
EconomicPressure(ess) == (100 * (30 - ess)) \div 30

\* the palettes of the five archetypes
SurvivorColors ==
    <<Hex6("8", "B", "0", "0", "0", "0"), Hex6("B", "2", "2", "2", "2", "2"),
      Hex6("C", "D", "5", "C", "5", "C"), Hex6("F", "0", "8", "0", "8", "0"),
      Hex6("F", "F", "B", "6", "C", "1")>>

StormColors ==
    <<Hex6("4", "B", "0", "0", "8", "2"), Hex6("6", "A", "5", "A", "C", "D"),
      Hex6("9", "3", "7", "0", "D", "B"), Hex6("D", "D", "A", "0", "D", "D"),
      Hex6("E", "6", "E", "6", "F", "A")>>

PrivilegedColors ==
    <<Hex6("2", "F", "4", "F", "4", "F"), Hex6("7", "0", "8", "0", "9", "0"),
      Hex6("7", "7", "8", "8", "9", "9"), Hex6("B", "0", "C", "4", "D", "E"),
      Hex6("F", "0", "F", "8", "F", "F")>>

BalancedColors ==
    <<Hex6("2", "7", "A", "E", "6", "0"), Hex6("1", "6", "A", "0", "8", "5"),
      Hex6("9", "5", "A", "5", "A", "6"), Hex6("B", "D", "C", "3", "C", "7"),
      Hex6("E", "C", "F", "0", "F", "1")>>

AdaptiveColors ==
    <<Hex6("E", "6", "7", "E", "2", "2"), Hex6("F", "3", "9", "C", "1", "2"),
      Hex6("F", "1", "C", "4", "0", "F"), Hex6("F", "F", "F", "A", "C", "D"),
      Hex6("F", "F", "F", "F", "F", "0")>>

\* the branch of determine_mood_archetype taken for the three composite scores,
\* given as exact multiples: s = 120 * stress_intensity, l = 120 * life_disruption,
\* e = 120 * economic_pressure
Archetype(s, l, e) ==
    IF e > 70 * 120 /\ s > 60 * 120
    THEN [name |-> "The Economic Survivor", colors |-> SurvivorColors]
    ELSE IF s > 70 * 120 /\ l > 50 * 120
    THEN [name |-> "The Storm Navigator", colors |-> StormColors]
    ELSE IF e < 30 * 120 /\ s > 60 * 120
    THEN [name |-> "The Privileged Anxious", colors |-> PrivilegedColors]
    ELSE IF s + l + e < 40 * 360
    THEN [name |-> "The Balanced Navigator", colors |-> BalancedColors]
    ELSE [name |-> "The Adaptive Responder", colors |-> AdaptiveColors]

\* the dict determine_mood_archetype builds from the three scores (the fields
\* the visualization reads)
MoodArchetype(pss, les, ess) ==
    LET a == Archetype(300 * pss, Min(40 * les, 12000), 400 * (30 - ess))
    IN [name |-> a.name, colors |-> a.colors,
        stress_level |-> StressLevel(pss),
        economic_pressure |-> EconomicPressure(ess),
        life_events |-> LifeEvents(les)]

\* the patterns list analyze_stress_intersections builds
StressPatterns(pss, les, ess, factors) ==
    LET high_pss == pss >= 20
        high_life_events == les >= 200
        low_economic_security == ess <= 15
        when(c, tag) == IF c THEN <<tag>> ELSE <<>>
    IN when(low_economic_security /\ high_pss, "economic_psychological_spiral")
       \o when(high_pss /\ high_life_events /\ low_economic_security,
               "triple_stress_amplification")
       \o when(high_pss /\ ~low_economic_security /\ ~high_life_events,
               "privilege_guilt_complex")
       \o when(low_economic_security /\ factors.emergency_preparedness <= 1,
               "survival_mode_activation")
       \o when((high_pss \/ high_life_events) /\ ess < 20, "heroic_functioning")

\* self.mood_archetype = None
NoArchetype == [name |-> "None"]

\* the assessment object after its __init__
FreshAssessment ==
    /\ pss_score = 0
    /\ life_events_score = 0
    /\ economic_stress_score = 0
    /\ economic_factors = [financial_security |-> 0, housing_stability |-> 0,
                           healthcare_burden |-> 0, employment_security |-> 0,
                           debt_stress |-> 0, emergency_preparedness |-> 0]
    /\ compound_stress_patterns = <<>>
    /\ mood_archetype = NoArchetype
    /\ conducts = 0

\* the scoring loop: self.pss_score += ... for each of the ten responses
PssScoreAfter(score, responses) ==
    score + SumOver([i \in 1..10 |-> PssPoints(i, responses[i])], 1, 10)

conduct_pss_assessment(responses) ==
    /\ conducts < MaxConducts
    /\ conducts' = conducts + 1
    /\ pss_score' = PssScoreAfter(pss_score, responses)
    /\ UNCHANGED <<life_events_score, economic_stress_score, economic_factors,
                   compound_stress_patterns, mood_archetype>>
    /\ UNCHANGED engine

\* self.life_events_score += score for every event answered yes
conduct_life_events_assessment(yes) ==
    /\ conducts < MaxConducts
    /\ conducts' = conducts + 1
    /\ life_events_score' =
           life_events_score
               + SumOver([i \in 1..Len(LifeEventScores) |->
                             IF i \in yes THEN LifeEventScores[i] ELSE 0],
                         1, Len(LifeEventScores))
    /\ UNCHANGED <<pss_score, economic_stress_score, economic_factors,
                   compound_stress_patterns, mood_archetype>>
    /\ UNCHANGED engine

\* the six factors are assigned, then summed into economic_stress_score
conduct_economic_assessment(answers) ==
    /\ conducts < MaxConducts
    /\ conducts' = conducts + 1
    /\ economic_factors' =
           [financial_security     |-> financial_mapping(answers[1]),
            emergency_preparedness |-> emergency_mapping(answers[2]),
            housing_stability      |-> housing_mapping(answers[3]),
            healthcare_burden      |-> healthcare_mapping(answers[4]),
            employment_security    |-> employment_mapping(answers[5]),
            debt_stress            |-> debt_mapping(answers[6])]
    /\ economic_stress_score' =
           economic_factors'.financial_security + economic_factors'.housing_stability
               + economic_factors'.healthcare_burden + economic_factors'.employment_security
               + economic_factors'.debt_stress + economic_factors'.emergency_preparedness
    /\ UNCHANGED <<pss_score, life_events_score, compound_stress_patterns, mood_archetype>>
    /\ UNCHANGED engine

analyze_stress_intersections ==
    /\ compound_stress_patterns' =
           StressPatterns(pss_score, life_events_score, economic_stress_score,
                          economic_factors)
    /\ UNCHANGED <<pss_score, life_events_score, economic_stress_score, economic_factors,
                   mood_archetype, conducts>>
    /\ UNCHANGED engine

determine_mood_archetype ==
    /\ mood_archetype' = MoodArchetype(pss_score, life_events_score, economic_stress_score)
    /\ UNCHANGED <<pss_score, life_events_score, economic_stress_score, economic_factors,
                   compound_stress_patterns, conducts>>
    /\ UNCHANGED engine

----------------------------------------------------------------------------
(* animate *)

\* the eight layer calls of animate, in program order; a layer that raises ends
\* the call, the layers after it are not entered
RenderLayers(s, md) ==
    CHOOSE s8 \in
        {create_floating_text(s7, md) :
         s7 \in {create_sparkle_field(s6, md) :
         s6 \in {create_stress_pattern_overlay(s5, md) :
         s5 \in {create_mood_stone_core(s4, md) :
         s4 \in {update_particle_systems(s3, md) :
         s3 \in {create_energy_flow_wisps(s2, md) :
         s2 \in {create_economic_pressure_visualization(s1, md) :
         s1 \in {create_holographic_background(s, md)}}}}}}}} : TRUE

\* variant: the frame counter kept modulo the 25 frames of a second
AdvanceFrameWrapped(s) == [s EXCEPT !.frame = (@ + 1) % 25]

\* self.frame += 1, after the layers
AdvanceFrame(s) == [s EXCEPT !.frame = @ + 1]

\* variant: frame incremented before the layers render
TickFrameFirst(s, md) == RenderLayers([s EXCEPT !.frame = @ + 1], md)

\* the body of animate past the guard, up to root.after
Tick(s, md) ==
    CHOOSE t \in {IF r.exc # "none" THEN r ELSE AdvanceFrame(r) :
                  r \in {RenderLayers(s, md)}} : TRUE

\* variant: animate without its guard
AnimateNeverReturnsEarly(run) == FALSE

\* if not self.running: return
AnimateReturnsEarly(run) == ~run

\* the object state a tick reads and writes: the profile is handed to every
\* layer and no layer assigns to it or to one of its entries
Engine ==
    [mood_data |-> mood_data, frame |-> frame, particles |-> particles,
     energy_wisps |-> energy_wisps, rng |-> rng, canvas |-> canvas, calls |-> <<>>,
     emitted |-> [tag \in Tags |-> 0], fills |-> {}, rings |-> <<>>, exc |-> "none"]

\* the effect of one call of self.animate() on the engine and on the timer
AnimateBody ==
    IF AnimateReturnsEarly(running)
    THEN /\ UNCHANGED <<mood_data, frame, particles, energy_wisps, canvas, emitted, fills,
                        rings, calls, ticks>>
         /\ scheduled' = FALSE
         /\ raised' = "none"
    ELSE \E t \in {Tick(Engine, mood_data)} :
            /\ mood_data' = t.mood_data
            /\ frame' = t.frame
            /\ particles' = t.particles
            /\ energy_wisps' = t.energy_wisps
            /\ canvas' = t.canvas
            /\ emitted' = t.emitted
            /\ fills' = t.fills
            /\ rings' = t.rings
            /\ calls' = t.calls
            /\ ticks' = IF t.exc = "none" THEN ticks + 1 ELSE ticks
            \* self.root.after(40, self.animate), reached when no layer raised
            /\ scheduled' = (t.exc = "none")
            /\ raised' = t.exc

\* the callback registered with root.after fires.  The pending callback is kept
\* across on_closing: what stops it is the guard of animate.  An exception that
\* leaves the callback is reported by Tk and the main loop goes on.
Animate ==
    /\ pc \in {"mainloop", "returned"}
    /\ scheduled
    /\ ticks < MaxTicks
    /\ AnimateBody
    /\ UNCHANGED <<running, stress_fragments, rng, destroyed, pc, closings>>
    /\ UNCHANGED assessment

----------------------------------------------------------------------------
(* on_closing *)

\* self.root.destroy(): Tk raises TclError when the application is already destroyed
Destroy(d) == [destroyed |-> TRUE, raised |-> IF d THEN "TclError" ELSE "none"]

on_closing ==
    /\ pc \in {"constructed", "mainloop", "returned"}
    /\ closings < MaxClosings
    /\ closings' = closings + 1
    /\ running' = FALSE
    /\ destroyed' = Destroy(destroyed).destroyed
    /\ raised' = Destroy(destroyed).raised
    \* mainloop returns once the root window is destroyed
    /\ pc' = IF pc = "mainloop" THEN "returned" ELSE pc
    /\ UNCHANGED <<mood_data, frame, particles, energy_wisps, stress_fragments,
                   rng, canvas, emitted, fills, rings, calls, scheduled, ticks>>
    /\ UNCHANGED assessment

----------------------------------------------------------------------------
(* run *)

\* self.animate(), then self.root.mainloop().  The animate call stands outside
\* the try: an exception of a layer leaves run ("raised") before mainloop is
\* entered.  On a destroyed root mainloop does not serve events and run returns
\* with running False.
\* variant: run marks the clock as running when it enters mainloop
MainloopStarts(r, d) == TRUE

\* self.running at the end of the try statement of run: set to False by the
\* except clause when mainloop raises on a destroyed root, left alone otherwise
MainloopLeaves(r, d) == IF d THEN FALSE ELSE r

run ==
    /\ pc = "constructed"
    /\ AnimateBody
    /\ IF raised' # "none"
       THEN running' = running /\ pc' = "raised"
       ELSE /\ running' = MainloopLeaves(running, destroyed)
            /\ pc' = IF destroyed THEN "returned" ELSE "mainloop"
    /\ UNCHANGED <<stress_fragments, rng, destroyed, closings>>
    /\ UNCHANGED assessment

----------------------------------------------------------------------------
(* __init__ *)

\* a profile as main() hands it to the constructor: the archetype of the three
\* scores with the pattern list added
Profile(s, e, l, pats) ==
    [name |-> Archetype(120 * s, 120 * l, 120 * e).name,
     colors |-> Archetype(120 * s, 120 * l, 120 * e).colors,
     stress_level |-> s, economic_pressure |-> e, life_events |-> l, patterns |-> pats]

\* the demo profile of main()
DemoProfile ==
    Profile(75, 85, 45, <<"economic_psychological_spiral", "survival_mode_activation">>)

\* a profile without the patterns key: the dict determine_mood_archetype returns
WithoutPatterns(md) == [k \in DOMAIN md \ {"patterns"} |-> md[k]]

\* profiles given to the constructor
Profiles ==
    {DemoProfile,
     Profile(0, 0, 0, <<>>),
     Profile(100, 30, 100, <<"relational_economic_stress">>),
     Profile(50, 60, 20, <<"survival_mode_activation", "heroic_functioning">>),
     WithoutPatterns(Profile(80, 10, 30, <<>>))}

\* the fields as __init__ sets them before it calls initialize_particles
Fresh ==
    /\ frame = 0
    /\ running = TRUE
    /\ particles = <<>>
    /\ energy_wisps = <<>>
    /\ stress_fragments = <<>>
    /\ canvas = [tag \in Tags |-> 0]
    /\ emitted = [tag \in Tags |-> 0]
    /\ fills = {}
    /\ rings = <<>>
    /\ calls = <<>>
    /\ scheduled = FALSE
    /\ destroyed = FALSE
    /\ pc = "new"
    /\ ticks = 0
    /\ closings = 0
    /\ raised = "none"

Init ==
    /\ mood_data \in Profiles
    /\ rng \in 0..MaxSeed
    /\ Fresh
    /\ FreshAssessment

\* self.initialize_particles() at the end of __init__
initialize_particles ==
    /\ pc = "new"
    /\ LET i == InitializeParticlesResult(mood_data, rng, particles, energy_wisps,
                                          stress_fragments)
       IN /\ particles' = i.particles
          /\ energy_wisps' = i.energy_wisps
          /\ stress_fragments' = i.stress_fragments
    /\ pc' = "constructed"
    /\ UNCHANGED <<mood_data, frame, running, rng, canvas, emitted, fills, rings, calls,
                   scheduled, destroyed, ticks, closings, raised>>
    /\ UNCHANGED assessment

Next ==
    \/ initialize_particles
    \/ run
    \/ Animate
    \/ on_closing

Spec == Init /\ [][Next]_vars

----------------------------------------------------------------------------
(* The assessment on its own *)

\* the questionnaire object on its own: any answers, the methods called in any
\* order, MaxConducts conduct_* calls at most; no visualization is constructed
InitAssessment ==
    /\ mood_data = DemoProfile
    /\ rng = 0
    /\ Fresh
    /\ FreshAssessment

NextAssessment ==
    \/ \E responses \in PssSheets : conduct_pss_assessment(responses)
    \/ \E yes \in LifeEventSheets : conduct_life_events_assessment(yes)
    \/ \E answers \in EconomicSheets : conduct_economic_assessment(answers)
    \/ analyze_stress_intersections
    \/ determine_mood_archetype

SpecAssessment == InitAssessment /\ [][NextAssessment]_vars

----------------------------------------------------------------------------
(* Palettes with entries that are not "#rrggbb" *)

\* the palette with entry k (1-based) replaced
WithEntry(colors, k, entry) == [colors EXCEPT ![k] = entry]

\* the profile with another palette
WithColors(md, colors) == [md EXCEPT !.colors = colors]

\* "#GG0000": seven characters, not hexadecimal
NonHexEntry == <<"#", "G", "G", "0", "0", "0", "0">>

\* "8B0000": hexadecimal, the "#" missing
NoHashEntry == <<"8", "B", "0", "0", "0", "0">>

\* "#FFF": hexadecimal, three digits
ShortEntry == <<"#", "F", "F", "F">>

\* the demo profile with one entry of its palette malformed (the third entry is
\* first selected at frame 20, the first at frame 0), and with an empty palette
PaletteProfiles ==
    {WithColors(DemoProfile, WithEntry(SurvivorColors, 3, NonHexEntry)),
     WithColors(DemoProfile, WithEntry(SurvivorColors, 1, NoHashEntry)),
     WithColors(DemoProfile, WithEntry(SurvivorColors, 1, ShortEntry)),
     WithColors(DemoProfile, <<>>)}

InitPalette ==
    /\ mood_data \in PaletteProfiles
    /\ rng \in 0..MaxSeed
    /\ Fresh
    /\ FreshAssessment

\* the visualization constructed and run on a profile with such a palette
SpecPalette == InitPalette /\ [][Next]_vars

----------------------------------------------------------------------------
(* Construction over the whole score range *)

Scores == 0..100

\* every stress_level with two economic pressures, every economic_pressure with
\* two stress levels
AllProfiles ==
    {Profile(s, e, 0, <<>>) : s \in Scores, e \in {0, 85}}
        \cup {Profile(s, e, 0, <<>>) : s \in {0, 75}, e \in Scores}

InitAll ==
    /\ mood_data \in AllProfiles
    /\ rng \in 0..MaxSeed
    /\ Fresh
    /\ FreshAssessment

NextInit ==
    \/ initialize_particles
    \/ run

\* __init__ followed by run up to the first tick, for every score
SpecInit == InitAll /\ [][NextInit]_vars

----------------------------------------------------------------------------
(* The layers as functions of the frame *)

\* the layers are rendered for every frame value 0 .. MaxFrame
MaxFrame == 500

\* the profiles of Profiles and the profile with the three scores at 100
FrameProfiles == Profiles \cup {Profile(100, 100, 100, <<>>)}

\* the object as constructed, its wisps included, with frame at any value a run
\* of ticks takes it to; the particles play no part in a colour or a ring
InitFrames ==
    /\ mood_data \in FrameProfiles
    /\ rng = 0
    /\ frame \in 0..MaxFrame
    /\ running = TRUE
    /\ particles = <<>>
    /\ energy_wisps = InitializeParticlesResult(mood_data, rng, <<>>, <<>>, <<>>).energy_wisps
    /\ stress_fragments = <<>>
    /\ canvas = [tag \in Tags |-> 0]
    /\ emitted = [tag \in Tags |-> 0]
    /\ fills = {}
    /\ rings = <<>>
    /\ calls = <<>>
    /\ scheduled = FALSE
    /\ destroyed = FALSE
    /\ pc = "frame"
    /\ ticks = 0
    /\ closings = 0
    /\ raised = "none"
    /\ FreshAssessment

\* the eight layer methods called once, in the order of animate, at the frame
\* of the state
RenderFrame ==
    /\ pc = "frame"
    /\ \E t \in {RenderLayers(Engine, mood_data)} :
          /\ mood_data' = t.mood_data
          /\ energy_wisps' = t.energy_wisps
          /\ canvas' = t.canvas
          /\ emitted' = t.emitted
          /\ fills' = t.fills
          /\ rings' = t.rings
          /\ calls' = t.calls
          /\ raised' = t.exc
    /\ pc' = "rendered"
    /\ UNCHANGED <<frame, running, particles, stress_fragments, rng, scheduled,
                   destroyed, ticks, closings>>
    /\ UNCHANGED assessment

SpecFrames == InitFrames /\ [][RenderFrame]_vars

----------------------------------------------------------------------------
(* Properties *)

\* squared distance of a point from the visualization center (hundredths squared)
Dist2(p) == (p.x - CX) * (p.x - CX) + (p.y - CY) * (p.y - CY)

\* a particle that sits on the respawn annulus with a full life after some tick
Respawned(p) == p.life = p.max_life /\ Dist2(p) >= 15000 * 15000

\* C1: after initialize_particles no step changes the size of the particle, the
\* stress-fragment or the energy-wisp collection, respawn ticks included.
C1_SizesInvariant ==
    [][pc # "new" =>
          /\ Len(particles') = Len(particles)
          /\ Len(stress_fragments') = Len(stress_fragments)
          /\ Len(energy_wisps') = Len(energy_wisps)]_vars

\* C1 witness: ticks have run, one of them respawned a particle, and the three
\* collections are populated.
C1_Witness ==
    /\ ticks >= 1
    /\ \E i \in DOMAIN particles : Respawned(particles[i])
    /\ Len(particles) >= 50 /\ Len(energy_wisps) >= 6 /\ Len(stress_fragments) >= 1

\* C2: a particle whose life is <= 0 after the decrement of a tick ends that tick
\* with life = max_life and at a distance in [150, 250] from the center.
C2_RespawnInTick ==
    [][ticks' = ticks + 1 =>
          \A i \in DOMAIN particles :
              particles[i].life - 100 <= 0 =>
                  /\ particles'[i].life = particles'[i].max_life
                  /\ Dist2(particles'[i]) >= 15000 * 15000
                  /\ Dist2(particles'[i]) <= 25000 * 25000]_vars

\* C2 witness: a tick has just respawned a particle (full life, on the annulus,
\* where no particle starts) next to particles that were only moved.
C2_Witness ==
    /\ ticks >= 50
    /\ \E i \in DOMAIN particles :
          /\ Respawned(particles[i])
          /\ Dist2(particles[i]) <= 25000 * 25000
    /\ \E j \in DOMAIN particles : particles[j].life < particles[j].max_life

\* the layers in the order animate calls them
LayerOrder ==
    <<"background", "economic_pressure", "energy_wisps", "particles",
      "stone_core", "stress_patterns", "sparkles", "floating_text">>

\* C3: a tick renders the eight layers once each in the fixed order, all reading
\* the same frame value, and only then increments frame, by exactly 1; ticks
\* happen only while running.
C3_LayerOrderThenFrame ==
    [][ticks' # ticks =>
          /\ running
          /\ ticks' = ticks + 1
          /\ calls' = [k \in 1..8 |-> [layer |-> LayerOrder[k], frame |-> frame]]
          /\ frame' = frame + 1]_vars

\* C3 witness: two ticks have completed and the latest rendered all eight layers.
C3_Witness == ticks >= 2 /\ Len(calls) = 8 /\ calls[8].layer = "floating_text"

\* C4: a second on_closing is a no-op: it raises no error, leaves the clock as the
\* first call left it and schedules nothing.
C4_StopIdempotent ==
    [][(closings >= 1 /\ closings' = closings + 1) =>
          /\ raised' = "none"
          /\ running' = running
          /\ destroyed' = destroyed
          /\ scheduled' = scheduled
          /\ pc' = pc]_vars

\* C5: once on_closing has run, running stays false and no step renders a layer,
\* changes a particle or wisp, increments frame or schedules a tick.
C5_StoppedIsTerminal ==
    [][closings >= 1 =>
          /\ ~running /\ ~running'
          /\ UNCHANGED <<frame, particles, energy_wisps, canvas, calls, ticks>>
          /\ (scheduled' => scheduled)]_vars

\* C5 witness: after ticks had run, on_closing ran and then the callback that was
\* already scheduled fired and returned at the guard.
C5_Witness == closings >= 1 /\ ticks >= 1 /\ ~scheduled /\ ~running /\ frame = ticks

\* C6: frame starts at 0 and between ticks equals the number of completed ticks;
\* it never decreases and changes only in a tick.
C6_FrameCountsTicks ==
    /\ frame = 0
    /\ [][/\ frame = ticks
          /\ frame' = ticks'
          /\ frame' >= frame
          /\ (frame' # frame => ticks' = ticks + 1)]_vars

\* C6 witness: 25 ticks have completed and frame is 25.
C6_Witness == ticks = 25 /\ frame = 25

\* clamp(lo, hi, v)
Clamp(lo, hi, v) == IF v < lo THEN lo ELSE IF v > hi THEN hi ELSE v

\* C7: initialize_particles creates clamp(50, 200, 150 - stress_level) particles:
\* 150 - stress_level for a score in 0..100, between 50 and 150.
C7_ParticleCount ==
    pc # "new" =>
        /\ Len(particles) = Clamp(50, 200, 150 - mood_data.stress_level)
        /\ Len(particles) = 150 - mood_data.stress_level
        /\ Len(particles) \in 50..150
        /\ (mood_data.stress_level = 75 => Len(particles) = 75)
        /\ (mood_data.stress_level = 0 => Len(particles) = 150)

\* C7 witness: the constructor has run on the stress-75 profile and made 75 particles.
C7_Witness == pc = "constructed" /\ mood_data.stress_level = 75 /\ Len(particles) = 75

\* C8: initialize_particles creates max(6, 12 - floor(economic_pressure / 10))
\* wisps, between 6 and 12, and the first tick leaves the count alone.
C8_WispCount ==
    pc # "new" =>
        LET e == mood_data.economic_pressure
            tens == CHOOSE q \in 0..10 : 10 * q <= e /\ e < 10 * (q + 1)
        IN /\ Len(energy_wisps) = (IF 12 - tens < 6 THEN 6 ELSE 12 - tens)
           /\ Len(energy_wisps) \in 6..12
           /\ (e = 85 => Len(energy_wisps) = 6)
           /\ (e = 0 => Len(energy_wisps) = 12)

\* C8 witness: the pressure-85 profile has 6 wisps after its first tick.
C8_Witness ==
    pc = "mainloop" /\ ticks = 1 /\ mood_data.economic_pressure = 85 /\ Len(energy_wisps) = 6

\* C9: initialize_particles creates floor(30 * stress_level / 100) fragments, each
\* with the center as target and chaos factor stress_level / 100.
C9_FragmentCount ==
    pc # "new" =>
        LET s == mood_data.stress_level
        IN /\ 100 * Len(stress_fragments) <= 30 * s
           /\ 30 * s < 100 * (Len(stress_fragments) + 1)
           /\ (s = 75 => Len(stress_fragments) = 22)
           /\ (s = 0 => Len(stress_fragments) = 0)
           /\ \A i \in DOMAIN stress_fragments :
                  /\ stress_fragments[i].target_x = center_x * 100
                  /\ stress_fragments[i].target_y = center_y * 100
                  /\ stress_fragments[i].chaos_factor = s

\* C9 witness: the stress-75 profile has 22 fragments aimed at the center.
C9_Witness ==
    /\ pc = "constructed"
    /\ mood_data.stress_level = 75
    /\ Len(stress_fragments) = 22
    /\ stress_fragments[22].target_x = CX

\* squared distance of a fragment from its target
FragmentDist2(g) ==
    (g.x - g.target_x) * (g.x - g.target_x) + (g.y - g.target_y) * (g.y - g.target_y)

\* C10: every tick steps every stress fragment toward its target (its distance to
\* the target changes unless it has arrived) and removes or respawns none.
C10_FragmentsStepped ==
    [][ticks' = ticks + 1 =>
          /\ Len(stress_fragments') = Len(stress_fragments)
          /\ \A i \in DOMAIN stress_fragments :
                 FragmentDist2(stress_fragments[i]) > 0 =>
                     FragmentDist2(stress_fragments'[i]) < FragmentDist2(stress_fragments[i])]_vars

\* C11: the stone core emits at most 10 ovals per tick, at most one per ring
\* (rings 0..9, in increasing order), and none whose current_size is <= 0.
C11_CoreOvals ==
    /\ Len(rings) <= 10
    /\ canvas["stone_core"] = Len(rings)
    /\ emitted["stone_core"] = Len(rings)
    /\ \A k \in DOMAIN rings :
           /\ rings[k].ring \in 0..9
           /\ rings[k].size > 0
           /\ \A j \in 1..(k - 1) : rings[j].ring < rings[k].ring

\* C11 witness: the core drew its ten rings at a frame past 100 under pressure
\* 100, the innermost compressed below a radius of 25.
C11_Witness ==
    /\ pc = "rendered"
    /\ frame >= 100
    /\ mood_data.economic_pressure = 100
    /\ Len(rings) = 10
    /\ rings[10].ring = 9
    /\ rings[10].size < 2500

\* the characters of a colour string after the "#" are six hexadecimal digits
SixHexDigits(c) ==
    /\ Len(c) = 7
    /\ c[1] = "#"
    /\ \A k \in 2..7 : HexValue(c[k]) \in 0..15

\* the layers whose fill is computed from the frame and the profile
Synthesizing ==
    {"background", "economic_pressure", "energy_wisps", "stone_core", "sparkles",
     "floating_text"}

\* C12: every colour a layer passes to the surface (waves, pressure lines, wisps,
\* rings of a hex palette, sparkles, text, and the fixed colours of the others)
\* is "#" and exactly six hex digits, each channel in 0..255, at every frame and
\* for every profile with scores in 0..100.
C12_ColoursWellFormed ==
    \A p \in fills :
        /\ SixHexDigits(p[2])
        /\ \A i \in {2, 4, 6} : ParseChannel(p[2], i) \in 0..255

\* C12 witness: a frame past 300 was rendered, every synthesizing layer passed a
\* colour, and a wisp and a sparkle colour have a channel below 16, written
\* with its leading zero.
C12_Witness ==
    /\ pc = "rendered"
    /\ frame > 300
    /\ \A tag \in Synthesizing : \E p \in fills : p[1] = tag
    /\ \E p \in fills : p[1] = "energy_wisps" /\ ParseChannel(p[2], 2) < 16
    /\ \E p \in fills : p[1] = "sparkles" /\ ParseChannel(p[2], 2) < 16

\* the primitives the motifs of the recognised tags of a profile amount to: 80
\* ovals for the spiral, 8 lines for the survival spikes
MotifPrimitives(md) ==
    LET present == IF "patterns" \in DOMAIN md
                   THEN {md.patterns[k] : k \in DOMAIN md.patterns}
                   ELSE {}
    IN (IF "economic_psychological_spiral" \in present THEN 80 ELSE 0)
       + (IF "survival_mode_activation" \in present THEN 8 ELSE 0)

\* C13: on every tick the pattern overlay emits exactly the motifs of the
\* recognised tags present: nothing for an empty or absent list, nothing for a
\* tag it does not know, and it raises no error.
C13_OverlayMotifs ==
    [][ticks' = ticks + 1 =>
          /\ raised' = "none"
          /\ calls'[6] = [layer |-> "stress_patterns", frame |-> frame]
          /\ emitted'["stress_patterns"] = MotifPrimitives(mood_data)
          /\ canvas'["stress_patterns"] = MotifPrimitives(mood_data)
          /\ ("patterns" \notin DOMAIN mood_data => canvas'["stress_patterns"] = 0)
          /\ (("patterns" \in DOMAIN mood_data /\ mood_data.patterns = <<>>)
                 => canvas'["stress_patterns"] = 0)]_vars

\* C13 witness: ticks ran on the profile that lists the survival tag and a tag
\* the overlay does not know, and the overlay holds the 8 spikes only.
C13_Witness ==
    /\ ticks >= 2
    /\ "patterns" \in DOMAIN mood_data
    /\ mood_data.patterns = <<"survival_mode_activation", "heroic_functioning">>
    /\ canvas["stress_patterns"] = 8
    /\ raised = "none"

\* C14: whatever the answers and however many conduct_* calls were made in
\* whatever order, the profile determine_mood_archetype returns has stress_level,
\* economic_pressure and life_events in 0..100 and a palette of 5 colours.
C14_ProfileInRange ==
    mood_archetype.name # "None" =>
        /\ mood_archetype.stress_level \in 0..100
        /\ mood_archetype.economic_pressure \in 0..100
        /\ mood_archetype.life_events \in 0..100
        /\ Len(mood_archetype.colors) = 5

\* the palette entries the ring loop selects at frame f that are not "#rrggbb"
Malformed(f, md) ==
    IF Len(md.colors) = 0 THEN {}
    ELSE {ring \in Rings : ~SixHexDigits(BaseColor(ring, f, md))}

\* C15: a tick in which a ring selects a palette entry that is not "#rrggbb"
\* passes the entry through as that ring's colour and does not fail: all ten
\* rings and all eight layers are rendered and frame is incremented.
C15_MalformedPassesThrough ==
    [][(calls' # calls /\ Malformed(frame, mood_data) # {}) =>
          /\ raised' = "none"
          /\ Len(rings') = 10
          /\ \A ring \in Malformed(frame, mood_data) :
                 rings'[ring + 1].fill = BaseColor(ring, frame, mood_data)
          /\ Len(calls') = 8
          /\ frame' = frame + 1]_vars

\* the latest animate call was left by an exception of a layer
FailedTick == calls # <<>> /\ Len(calls) < 8

\* C16: when a layer raises during a tick the exception leaves animate, the
\* tick is not retried, no tick is scheduled or run afterwards, and the clock is
\* in the Stopped state (running false).
C16_FailedTickStopsClock ==
    /\ [](FailedTick => (raised # "none" \/ closings > 0))
    /\ [](FailedTick => ~scheduled)
    /\ [][FailedTick => UNCHANGED <<calls, ticks, frame, canvas>>]_vars
    /\ [](FailedTick => ~running)

WispShape(w) == <<w.radius, w.flow_speed, w.amplitude, w.frequency>>

\* C18: every tick adds to each wisp's angle exactly its flow_speed, so that after
\* n ticks angle = initial angle + n * flow_speed, strictly increasing and never
\* wrapped; radius, flow_speed, amplitude and frequency never change.
C18_WispsAdvance ==
    /\ [][ticks' = ticks + 1 =>
             \A k \in DOMAIN energy_wisps :
                 /\ energy_wisps'[k].angle = energy_wisps[k].angle + energy_wisps[k].flow_speed
                 /\ energy_wisps'[k].angle > energy_wisps[k].angle]_vars
    /\ [][pc # "new" =>
             /\ DOMAIN energy_wisps' = DOMAIN energy_wisps
             /\ \A k \in DOMAIN energy_wisps :
                    WispShape(energy_wisps'[k]) = WispShape(energy_wisps[k])]_vars
    /\ [](pc # "new" =>
             \A k \in DOMAIN energy_wisps :
                 energy_wisps[k].angle =
                     ((k - 1) * TwoPiMrad) \div Len(energy_wisps)
                         + ticks * energy_wisps[k].flow_speed)

\* C18 witness: after 50 ticks a wisp's angle has passed a full turn and was
\* not wrapped.
C18_Witness ==
    /\ ticks >= 50
    /\ \E k \in DOMAIN energy_wisps :
           /\ energy_wisps[k].angle > TwoPiMrad
           /\ energy_wisps[k].angle =
                  ((k - 1) * TwoPiMrad) \div Len(energy_wisps) + ticks * energy_wisps[k].flow_speed

\* the number of primitives on the surface
SurfaceTotal ==
    canvas["background"] + canvas["economic_pressure"] + canvas["energy_wisps"]
        + canvas["particles"] + canvas["stone_core"] + canvas["stress_patterns"]
        + canvas["sparkles"] + canvas["floating_text"]

\* the most primitives one tick can emit: 6 waves, 18 pressure lines, a line per
\* wisp, an oval per particle, 10 rings, the motifs, the sparkle candidates, 4 texts
TickMost ==
    6 + 18 + Len(energy_wisps) + Len(particles) + 10 + MotifPrimitives(mood_data)
        + NumSparkles(mood_data) + 4

\* C19: every layer deletes the primitives of its own tag and creates primitives
\* of its own tag only, so the surface holds, tag by tag, exactly what the layers
\* emitted in the latest tick; the number of primitives is bounded whatever the
\* number of ticks, and no layer's primitives are deleted by another layer.
C19_LayersOwnTheirTags ==
    /\ \A tag \in Tags : canvas[tag] = emitted[tag]
    /\ SurfaceTotal <= TickMost

\* C19 witness: after 40 ticks the surface holds the primitives of one tick:
\* the 6 waves, the 10 rings, the 4 texts, a line per wisp, and particles and
\* sparkles.
C19_Witness ==
    /\ ticks >= 40
    /\ canvas["background"] = 6
    /\ canvas["stone_core"] = 10
    /\ canvas["floating_text"] = 4
    /\ canvas["energy_wisps"] = Len(energy_wisps)
    /\ canvas["particles"] > 0
    /\ canvas["sparkles"] > 0
    /\ SurfaceTotal > 30

\* C20: the profile is read-only for the engine: no tick, layer render, run or
\* on_closing changes the scores, the palette, the pattern list or any other
\* field, so at every moment it is a profile as given to the constructor.
C20_ProfileReadOnly ==
    /\ mood_data \in Profiles
    /\ [][mood_data' = mood_data]_vars

\* C20 witness: after 40 ticks and a close the profile that came without a
\* patterns key still has none, and its scores are those given.
C20_Witness ==
    /\ ticks >= 40
    /\ closings >= 1
    /\ "patterns" \notin DOMAIN mood_data
    /\ mood_data.stress_level = 80
    /\ mood_data.economic_pressure = 10
    /\ Len(mood_data.colors) = 5

\* the particles the draw at the end of the loop body puts on the canvas, computed
\* from the lives the tick leaves behind
DrawnParticles(ps) == {i \in DOMAIN ps : ParticleDrawn(ps[i])}

\* C21: between ticks every particle has life > 0 and max_life >= 50; a particle
\* whose life is <= 0 after the decrement of a tick ends the tick with its
\* max_life, and the ovals of the tick are the ones the lives after the reset give
\* (a non-positive life never enters the draw alpha).
C21_LifePositive ==
    /\ [](\A i \in DOMAIN particles :
              particles[i].life > 0 /\ particles[i].max_life >= 5000)
    /\ [][ticks' = ticks + 1 =>
              /\ \A i \in DOMAIN particles :
                    particles[i].life - 100 <= 0 =>
                        particles'[i].life = particles'[i].max_life
              /\ emitted'["particles"] = Cardinality(DrawnParticles(particles'))]_vars

\* C21 witness: a tick has just reset a particle whose life ran out (full life on
\* the respawn annulus) and drawn it, while another particle is close to its end.
C21_Witness ==
    /\ ticks >= 50
    /\ \E i \in DrawnParticles(particles) : Respawned(particles[i])
    /\ \E j \in DOMAIN particles : particles[j].life <= 200
    /\ emitted["particles"] = Cardinality(DrawnParticles(particles))

\* the radius of the oval of a particle, in hundredths: size * (life / max_life)
DrawnRadius(p) == Quot(p.size * p.life, p.max_life)

\* C22: at every tick every particle has life <= max_life, so its oval is drawn
\* with a radius of at most its size, from the first tick after initialization on.
C22_LifeWithinMaxLife ==
    ticks >= 1 =>
        \A i \in DOMAIN particles :
            /\ particles[i].life <= particles[i].max_life
            /\ DrawnRadius(particles[i]) <= particles[i].size

====
